---- MODULE Spec2Model ----
(***************************************************************************)
(* Terzaghi bearing capacity calculator (src/javascript/terzaghi.js).      *)
(*                                                                         *)
(* Two state machines share the variables below.                           *)
(*   SpecEngine : a caller constructs TerzaghiBearingCapacity directly     *)
(*                with numeric arguments (the engine on its own).          *)
(*   Spec       : the React component BearingCapacityApp: the user types   *)
(*                into the seven text boxes, clicks radio buttons, presses *)
(*                Calculate, Enter or Reset.                               *)
(*                                                                         *)
(* JavaScript values are records of one shape, tagged by t:                *)
(*   "undefined", "boolean" (n = 1 or 0), "number" (the rational n/d in    *)
(*   lowest terms, d > 0), "NaN", "Infinity" (n = 1 or -1), "string" (s).  *)
(* Numbers are exact rationals: the model does not carry the binary        *)
(* rounding error of IEEE doubles, nor the sign of zero.                   *)
(* A string is a sequence of pieces. Text typed by the user is split into  *)
(* single characters, so that the regular expressions, the string          *)
(* comparison and the string-to-number conversion of the code can be       *)
(* computed on it; literals of the source are kept as one piece.           *)
(***************************************************************************)
EXTENDS Integers, Sequences, FiniteSets

VARIABLES
    args,        \* the arguments of a direct call of the constructor
    result,      \* what that call produced (NoResult before the call)
    state,       \* BearingCapacityApp: this.state without the error object
    error,       \* BearingCapacityApp: this.state.error
    radioChecked,\* DOM: which foundation-type radio button is checked
    radioValue   \* DOM: the value attribute of each radio button

vars == <<args, result, state, error, radioChecked, radioValue>>

(***************************************************************************)
(* JavaScript values                                                       *)
(***************************************************************************)
Abs(x) == IF x < 0 THEN -x ELSE x

RECURSIVE Gcd(_, _)
Gcd(a, b) == IF b = 0 THEN a ELSE Gcd(b, a % b)

Undefined == [t |-> "undefined", n |-> 0, d |-> 1, s |-> <<>>]
NaN == [t |-> "NaN", n |-> 0, d |-> 1, s |-> <<>>]
Infinity(sign) == [t |-> "Infinity", n |-> sign, d |-> 1, s |-> <<>>]
Bool(b) == [t |-> "boolean", n |-> IF b THEN 1 ELSE 0, d |-> 1, s |-> <<>>]
String(s) == [t |-> "string", n |-> 0, d |-> 1, s |-> s]

\* the number n/d (d > 0), in lowest terms
Num(n, d) ==
    LET g == Gcd(Abs(n), d)
    IN  [t |-> "number", n |-> n \div g, d |-> d \div g, s |-> <<>>]

Whole(n) == Num(n, 1)

Sign(x) == IF x.n < 0 THEN -1 ELSE IF x.n > 0 THEN 1 ELSE 0

IsDigit(c) == c \in {"0", "1", "2", "3", "4", "5", "6", "7", "8", "9"}

DigitValue(c) ==
    CASE c = "0" -> 0 [] c = "1" -> 1 [] c = "2" -> 2 [] c = "3" -> 3
      [] c = "4" -> 4 [] c = "5" -> 5 [] c = "6" -> 6 [] c = "7" -> 7
      [] c = "8" -> 8 [] c = "9" -> 9

DigitChar(k) == SubSeq(<<"0", "1", "2", "3", "4", "5", "6", "7", "8", "9">>, k + 1, k + 1)

\* UTF-16 code unit of the characters the model types
CharCode(c) ==
    CASE c = "-" -> 45 [] c = "." -> 46 [] c = "x" -> 120
      [] OTHER -> 48 + DigitValue(c)

AllDigits(s) == \A i \in 1..Len(s) : IsDigit(s[i])

RECURSIVE DigitsValue(_)
DigitsValue(s) ==
    IF s = <<>> THEN 0
    ELSE 10 * DigitsValue(SubSeq(s, 1, Len(s) - 1)) + DigitValue(s[Len(s)])

RECURSIVE Pow10(_)
Pow10(k) == IF k = 0 THEN 1 ELSE 10 * Pow10(k - 1)

\* StringToNumber on an unsigned or signed decimal literal: digits, an
\* optional point, digits; the empty string is 0; anything else is NaN.
UnsignedToNumber(s) ==
    LET dots == {i \in 1..Len(s) : s[i] = "."}
    IN  IF dots = {}
        THEN IF AllDigits(s) /\ s # <<>> THEN Whole(DigitsValue(s)) ELSE NaN
        ELSE LET p == CHOOSE i \in dots : \A j \in dots : i <= j
                 ip == SubSeq(s, 1, p - 1)
                 fp == SubSeq(s, p + 1, Len(s))
             IN  IF AllDigits(ip) /\ AllDigits(fp) /\ Len(ip) + Len(fp) > 0
                 THEN Num(DigitsValue(ip) * Pow10(Len(fp)) + DigitsValue(fp),
                          Pow10(Len(fp)))
                 ELSE NaN

StringToNumber(s) ==
    IF s = <<>> THEN Whole(0)
    ELSE IF s[1] = "-"
         THEN LET u == UnsignedToNumber(Tail(s))
              IN  IF u.t = "number" THEN Num(-u.n, u.d) ELSE NaN
         ELSE UnsignedToNumber(s)

ToNumber(v) ==
    CASE v.t = "undefined" -> NaN
      [] v.t = "boolean" -> Whole(v.n)
      [] v.t = "string" -> StringToNumber(v.s)
      [] OTHER -> v

RECURSIVE NatToString(_)
NatToString(k) ==
    IF k < 10 THEN DigitChar(k) ELSE NatToString(k \div 10) \o DigitChar(k % 10)

RECURSIVE FractionDigits(_, _)
\* the decimal digits of r/d (0 <= r < d), d dividing a power of ten
FractionDigits(r, d) ==
    IF r = 0 THEN <<>>
    ELSE DigitChar((10 * r) \div d) \o FractionDigits((10 * r) % d, d)

\* Number::toString for the numbers the code prints: integers and
\* terminating decimals
NumberToString(x) ==
    CASE x.t = "NaN" -> <<"NaN">>
      [] x.t = "Infinity" -> IF x.n < 0 THEN <<"-Infinity">> ELSE <<"Infinity">>
      [] OTHER ->
            LET a == Abs(x.n)
                whole == NatToString(a \div x.d)
                frac == FractionDigits(a % x.d, x.d)
            IN  (IF x.n < 0 THEN <<"-">> ELSE <<>>) \o whole
                    \o (IF frac = <<>> THEN <<>> ELSE <<".">> \o frac)

JSToString(v) ==
    CASE v.t = "string" -> v.s
      [] v.t = "undefined" -> <<"undefined">>
      [] v.t = "boolean" -> IF v.n = 1 THEN <<"true">> ELSE <<"false">>
      [] OTHER -> NumberToString(v)

\* ToBoolean: what `!v` negates
Truthy(v) ==
    CASE v.t = "undefined" -> FALSE
      [] v.t = "boolean" -> v.n = 1
      [] v.t = "number" -> v.n # 0
      [] v.t = "NaN" -> FALSE
      [] v.t = "Infinity" -> TRUE
      [] v.t = "string" -> v.s # <<>>

(***************************************************************************)
(* JavaScript arithmetic on numbers (operands already converted)           *)
(***************************************************************************)
Lcm(a, b) == (a \div Gcd(a, b)) * b

NumAdd(x, y) ==
    CASE x.t = "NaN" \/ y.t = "NaN" -> NaN
      [] x.t = "Infinity" /\ y.t = "Infinity" ->
            IF x.n = y.n THEN x ELSE NaN
      [] x.t = "Infinity" -> x
      [] y.t = "Infinity" -> y
      [] OTHER ->
            LET l == Lcm(x.d, y.d)
            IN  Num(x.n * (l \div x.d) + y.n * (l \div y.d), l)

NumNeg(x) ==
    CASE x.t = "NaN" -> NaN
      [] x.t = "Infinity" -> Infinity(-x.n)
      [] OTHER -> Num(-x.n, x.d)

NumMul(x, y) ==
    CASE x.t = "NaN" \/ y.t = "NaN" -> NaN
      [] x.t = "Infinity" \/ y.t = "Infinity" ->
            IF Sign(x) * Sign(y) = 0 THEN NaN ELSE Infinity(Sign(x) * Sign(y))
      [] OTHER ->
            LET g1 == Gcd(Abs(x.n), y.d)
                g2 == Gcd(Abs(y.n), x.d)
            IN  Num((x.n \div g1) * (y.n \div g2), (x.d \div g2) * (y.d \div g1))

NumDiv(x, y) ==
    CASE x.t = "NaN" \/ y.t = "NaN" -> NaN
      [] x.t = "Infinity" /\ y.t = "Infinity" -> NaN
      [] x.t = "Infinity" -> Infinity(IF Sign(y) < 0 THEN -x.n ELSE x.n)
      [] y.t = "Infinity" -> Whole(0)
      [] y.n = 0 -> IF x.n = 0 THEN NaN ELSE Infinity(Sign(x))
      [] OTHER ->
            NumMul(x, IF y.n < 0 THEN Num(-y.d, -y.n) ELSE Num(y.d, y.n))

\* x < y on numbers; every comparison with NaN is false
NumLess(x, y) ==
    CASE x.t = "NaN" \/ y.t = "NaN" -> FALSE
      [] x.t = "Infinity" /\ y.t = "Infinity" -> x.n < y.n
      [] x.t = "Infinity" -> x.n < 0
      [] y.t = "Infinity" -> y.n > 0
      [] OTHER -> x.n * y.d < y.n * x.d

NumEq(x, y) == x.t # "NaN" /\ y.t # "NaN" /\ x = y

\* Math.round: the integer nearest to x, ties towards +Infinity
MathRound(v) ==
    LET x == ToNumber(v)
    IN  IF x.t = "number" THEN Whole((2 * x.n + x.d) \div (2 * x.d)) ELSE x

(***************************************************************************)
(* JavaScript operators on values                                          *)
(***************************************************************************)
\* a + b: concatenation as soon as one operand is a string
Plus(a, b) ==
    IF a.t = "string" \/ b.t = "string"
    THEN String(JSToString(a) \o JSToString(b))
    ELSE NumAdd(ToNumber(a), ToNumber(b))

Minus(a, b) == NumAdd(ToNumber(a), NumNeg(ToNumber(b)))
Times(a, b) == NumMul(ToNumber(a), ToNumber(b))
Divide(a, b) == NumDiv(ToNumber(a), ToNumber(b))

RECURSIVE StringLess(_, _)
\* s < t on strings: by code units, a proper prefix comes first
StringLess(s, u) ==
    IF u = <<>> THEN FALSE
    ELSE IF s = <<>> THEN TRUE
    ELSE IF s[1] = u[1] THEN StringLess(Tail(s), Tail(u))
    ELSE CharCode(s[1]) < CharCode(u[1])

\* a < b: two strings are compared as strings, anything else as numbers
Less(a, b) ==
    IF a.t = "string" /\ b.t = "string"
    THEN StringLess(a.s, b.s)
    ELSE NumLess(ToNumber(a), ToNumber(b))

LessEq(a, b) ==
    IF a.t = "string" /\ b.t = "string"
    THEN ~StringLess(b.s, a.s)
    ELSE NumLess(ToNumber(a), ToNumber(b)) \/ NumEq(ToNumber(a), ToNumber(b))

GreaterEq(a, b) == LessEq(b, a)

(***************************************************************************)
(* Globals of terzaghi.js                                                  *)
(***************************************************************************)
unitWeightWater == Num(624, 10)

\* NTerzaghi in tenths: entry phi + 1 is <<Nc, Nq, Ng>> * 10 for key phi
NTerzaghiTenths ==
    <<
       <<57, 10, 0>>, <<60, 11, 1>>, <<63, 12, 1>>,
       <<66, 13, 2>>, <<70, 15, 3>>, <<73, 16, 4>>,
       <<77, 18, 5>>, <<82, 20, 6>>, <<86, 22, 7>>,
       <<91, 24, 9>>, <<96, 27, 10>>, <<102, 30, 12>>,
       <<108, 33, 14>>, <<114, 36, 16>>, <<121, 40, 19>>,
       <<129, 44, 22>>, <<137, 49, 25>>, <<146, 55, 29>>,
       <<155, 60, 33>>, <<166, 67, 38>>, <<177, 74, 44>>,
       <<189, 83, 51>>, <<203, 92, 59>>, <<217, 102, 68>>,
       <<234, 114, 79>>, <<251, 127, 92>>, <<271, 142, 107>>,
       <<292, 159, 125>>, <<316, 178, 146>>, <<342, 200, 171>>,
       <<372, 225, 201>>, <<404, 253, 237>>, <<440, 285, 280>>,
       <<481, 322, 333>>, <<526, 365, 396>>, <<578, 414, 473>>,
       <<635, 472, 567>>, <<701, 538, 681>>, <<775, 615, 823>>,
       <<860, 706, 998>>, <<957, 813, 1215>>, <<1068, 938, 1485>>
    >>

NTerzaghiKeys == 0..(Len(NTerzaghiTenths) - 1)

\* NTerzaghi[key][i]: own properties only; a missing key gives undefined,
\* and indexing undefined throws a TypeError
HasKey(key) == \E k \in NTerzaghiKeys : NatToString(k) = JSToString(key)

KeyOf(key) == CHOOSE k \in NTerzaghiKeys : NatToString(k) = JSToString(key)

NTerzaghi(key, i) == Num(NTerzaghiTenths[KeyOf(key) + 1][i + 1], 10)

(***************************************************************************)
(* class TerzaghiBearingCapacity                                           *)
(***************************************************************************)
Text(piece) == String(<<piece>>)

\* line 97
GroundwaterDepthHalved(groundwaterDepth, depth, width) ==
    IF ~Truthy(groundwaterDepth) THEN Plus(depth, width) ELSE groundwaterDepth

GroundwaterDepthOrDefault(groundwaterDepth, depth, width) ==
    IF ~Truthy(groundwaterDepth)
    THEN Times(Whole(2), Plus(depth, width))
    ELSE groundwaterDepth

\* lines 99-106; groundwaterDepth is this.groundwaterDepth
EffectiveUnitWeight(groundwaterDepth, depth, unitWeight, width) ==
    IF LessEq(groundwaterDepth, depth)
    THEN Minus(unitWeight, unitWeightWater)
    ELSE IF Less(depth, groundwaterDepth)
            /\ Less(groundwaterDepth, Plus(depth, width))
         THEN Minus(unitWeight,
                    Times(unitWeightWater,
                          Minus(Whole(1),
                                Divide(Minus(groundwaterDepth, depth), width))))
         ELSE unitWeight

\* lines 108-114; thisGroundwaterDepth is the field, groundwaterDepth the
\* constructor's parameter, which the else branch reads
EffectiveStress(thisGroundwaterDepth, groundwaterDepth, depth, unitWeight) ==
    IF GreaterEq(thisGroundwaterDepth, depth)
    THEN Times(unitWeight, depth)
    ELSE LET totalStress == Times(unitWeight, depth)
             porePressure == Times(Minus(depth, groundwaterDepth), unitWeightWater)
         IN  Minus(totalStress, porePressure)

\* lines 117-119
LookupClamped(phi) ==
    LET x == ToNumber(phi)
        k == IF x.t = "number" /\ x.n >= 0
             THEN IF x.n \div x.d > 41 THEN 41 ELSE x.n \div x.d
             ELSE 0
    IN  [found |-> TRUE, Nc |-> NTerzaghi(Whole(k), 0),
         Nq |-> NTerzaghi(Whole(k), 1), Ng |-> NTerzaghi(Whole(k), 2)]

Lookup(phi) ==
    IF HasKey(phi)
    THEN [found |-> TRUE, Nc |-> NTerzaghi(phi, 0), Nq |-> NTerzaghi(phi, 1),
          Ng |-> NTerzaghi(phi, 2)]
    ELSE [found |-> FALSE, Nc |-> Undefined, Nq |-> Undefined, Ng |-> Undefined]

\* lines 122-148
ContinuousEquation == Text("(c * Nq) + (Eff.Stress * Nq) + (0.5 * gamma * B * Ng)")

Coefficients(c1, c2, c3, eq) ==
    [coef1 |-> c1, coef2 |-> c2, coef3 |-> c3, equation |-> eq]

ShapeCoefficientsDefaultSquare(shape) ==
    IF shape = Text("continuous")
    THEN Coefficients(Whole(1), Whole(1), Num(5, 10), ContinuousEquation)
    ELSE IF shape = Text("circular")
    THEN Coefficients(Num(13, 10), Whole(1), Num(3, 10),
             Text("(1.3 c * Nq) + (Eff.Stress * Nq) + (0.3 * gamma * B * Ng)"))
    ELSE Coefficients(Num(13, 10), Whole(1), Num(4, 10),
             Text("(1.3 c * Nq) + (Eff.Stress * Nq) + (0.4 * gamma * B * Ng)"))

ShapeCoefficients(shape) ==
    CASE shape = Text("square") ->
            Coefficients(Num(13, 10), Whole(1), Num(4, 10),
                Text("(1.3 c * Nq) + (Eff.Stress * Nq) + (0.4 * gamma * B * Ng)"))
      [] shape = Text("continuous") ->
            Coefficients(Whole(1), Whole(1), Num(5, 10), ContinuousEquation)
      [] shape = Text("circular") ->
            Coefficients(Num(13, 10), Whole(1), Num(3, 10),
                Text("(1.3 c * Nq) + (Eff.Stress * Nq) + (0.3 * gamma * B * Ng)"))
      [] OTHER ->
            Coefficients(Whole(1), Whole(1), Num(5, 10), ContinuousEquation)

\* line 151
BearingCapacityUnrounded(co, cohesion, effectiveStress, effectiveUnitWeight, width, N) ==
    Plus(Plus(Times(Times(co.coef1, cohesion), N.Nc),
              Times(Times(co.coef2, effectiveStress), N.Nq)),
         Times(Times(Times(co.coef3, effectiveUnitWeight), width), N.Ng))

BearingCapacity(co, cohesion, effectiveStress, effectiveUnitWeight, width, N) ==
    MathRound(
        Plus(Plus(Times(Times(co.coef1, cohesion), N.Nc),
                  Times(Times(co.coef2, effectiveStress), N.Nq)),
             Times(Times(Times(co.coef3, effectiveUnitWeight), width), N.Ng)))

\* line 153
AllowableCapacity(bearingCapacity, FS) == MathRound(Divide(bearingCapacity, FS))

\* a template that prints the unit weight where the stress belongs
CalculationTermsSwapped(co, cohesion, effectiveStress, effectiveUnitWeight, width, N, bearingCapacity) ==
    String(<<"(">> \o JSToString(co.coef1) \o <<" x ">> \o JSToString(cohesion)
        \o <<" x ">> \o JSToString(N.Nc) \o <<") + (">> \o JSToString(co.coef2)
        \o <<" x ">> \o JSToString(MathRound(effectiveUnitWeight))
        \o <<" x ">> \o JSToString(N.Nq) \o <<") + (">> \o JSToString(co.coef3)
        \o <<" x ">> \o JSToString(MathRound(effectiveStress))
        \o <<" x ">> \o JSToString(width) \o <<" x ">> \o JSToString(N.Ng)
        \o <<") = ">> \o JSToString(bearingCapacity))

\* line 154: the template literal, each ${...} converted with ToString
Calculation(co, cohesion, effectiveStress, effectiveUnitWeight, width, N, bearingCapacity) ==
    String(<<"(">> \o JSToString(co.coef1) \o <<" x ">> \o JSToString(cohesion)
        \o <<" x ">> \o JSToString(N.Nc) \o <<") + (">> \o JSToString(co.coef2)
        \o <<" x ">> \o JSToString(MathRound(effectiveStress))
        \o <<" x ">> \o JSToString(N.Nq) \o <<") + (">> \o JSToString(co.coef3)
        \o <<" x ">> \o JSToString(MathRound(effectiveUnitWeight))
        \o <<" x ">> \o JSToString(width) \o <<" x ">> \o JSToString(N.Ng)
        \o <<") = ">> \o JSToString(bearingCapacity))

NoObject ==
    [cohesion |-> Undefined, phi |-> Undefined, depth |-> Undefined,
     unitWeight |-> Undefined, width |-> Undefined, shape |-> Undefined,
     groundwaterDepth |-> Undefined, FS |-> Undefined,
     effectiveUnitWeight |-> Undefined, effectiveStress |-> Undefined,
     Nc |-> Undefined, Nq |-> Undefined, Ng |-> Undefined,
     coef1 |-> Undefined, coef2 |-> Undefined, coef3 |-> Undefined,
     equation |-> Undefined, bearingCapacity |-> Undefined,
     allowableCapacity |-> Undefined, calculation |-> Undefined]

NoResult == [status |-> "none", obj |-> NoObject]

\* new TerzaghiBearingCapacity(...): the constructed object, or the
\* TypeError thrown at line 117 (no object reaches the caller)
TerzaghiBearingCapacity(cohesion, phi, depth, unitWeight, width, shape, groundwaterDepth, FS) ==
    LET gw == GroundwaterDepthOrDefault(groundwaterDepth, depth, width)
        euw == EffectiveUnitWeight(gw, depth, unitWeight, width)
        es == EffectiveStress(gw, groundwaterDepth, depth, unitWeight)
        N == Lookup(phi)
        co == ShapeCoefficients(shape)
        bc == BearingCapacity(co, cohesion, es, euw, width, N)
    IN  IF ~N.found
        THEN [status |-> "TypeError", obj |-> NoObject]
        ELSE [status |-> "constructed",
              obj |-> [cohesion |-> cohesion, phi |-> phi, depth |-> depth,
                       unitWeight |-> unitWeight, width |-> width,
                       shape |-> shape, groundwaterDepth |-> gw, FS |-> FS,
                       effectiveUnitWeight |-> euw, effectiveStress |-> es,
                       Nc |-> N.Nc, Nq |-> N.Nq, Ng |-> N.Ng,
                       coef1 |-> co.coef1, coef2 |-> co.coef2,
                       coef3 |-> co.coef3, equation |-> co.equation,
                       bearingCapacity |-> bc,
                       allowableCapacity |-> AllowableCapacity(bc, FS),
                       calculation |-> Calculation(co, cohesion, es, euw, width, N, bc)]]

(***************************************************************************)
(* Direct calls of the constructor: the inputs                             *)
(***************************************************************************)
MaxDepthHalves == 7
MaxWidthHalves == 8
MaxGroundwaterHalves == 16
PhiMargin == 1

Halves(lo, hi) == {Num(k, 2) : k \in lo..hi}

Shapes == {Text("square"), Text("continuous"), Text("circular"), Text("triangle")}

\* the groundwater geometry, on a grid of half feet
GeometryInputs ==
    [cohesion : {Whole(0), Whole(100)},
     phi : {Whole(0), Whole(30)},
     depth : Halves(0, MaxDepthHalves),
     unitWeight : {Whole(120), Num(1005, 10)},
     width : Halves(1, MaxWidthHalves),
     shape : {Text("continuous")},
     groundwaterDepth : {Undefined} \cup Halves(0, MaxGroundwaterHalves),
     FS : {Whole(3)}]

\* the friction angle, the shape and the factor of safety
FactorInputs ==
    [cohesion : {Whole(0), Whole(100)},
     phi : {Whole(k) : k \in (0 - PhiMargin)..(41 + PhiMargin)} \cup {Num(61, 2)},
     depth : {Whole(0), Whole(3)},
     unitWeight : {Whole(120)},
     width : {Whole(4)},
     shape : Shapes,
     groundwaterDepth : {Undefined, Whole(0), Whole(2)},
     FS : {Whole(-1), Whole(0), Num(3, 2), Whole(2), Whole(3)}]

NoArgs ==
    [cohesion |-> Undefined, phi |-> Undefined, depth |-> Undefined,
     unitWeight |-> Undefined, width |-> Undefined, shape |-> Undefined,
     groundwaterDepth |-> Undefined, FS |-> Undefined]

New(a) ==
    TerzaghiBearingCapacity(a.cohesion, a.phi, a.depth, a.unitWeight, a.width,
                            a.shape, a.groundwaterDepth, a.FS)

(***************************************************************************)
(* startState, and the page as first rendered                              *)
(***************************************************************************)
startState ==
    [shape |-> Text("continuous"), cohesion |-> Undefined, phi |-> Undefined,
     unitWeight |-> Undefined, depth |-> Undefined, width |-> Undefined,
     groundwaterDepth |-> Undefined, fs |-> Whole(3), FS |-> Undefined,
     renderedFS |-> Whole(3), bearingCapacity |-> Undefined,
     allowableCapacity |-> Undefined, calculation |-> Undefined,
     equation |-> Undefined, calculated |-> Bool(FALSE)]

\* startState.error; it has no key FS, which reads as undefined
startError ==
    [cohesion |-> Bool(FALSE), phi |-> Bool(FALSE), unitWeight |-> Bool(FALSE),
     depth |-> Bool(FALSE), width |-> Bool(FALSE),
     groundwaterDepth |-> Bool(FALSE), fs |-> Bool(FALSE), FS |-> Undefined,
     undefinedInput |-> Bool(FALSE), cannotEvaluate |-> Bool(FALSE)]

RadioButtons == <<"continuous", "square", "circular">>

\* render(): the value attribute of each radio button
renderedRadioValue ==
    [b \in {RadioButtons[i] : i \in 1..Len(RadioButtons)} |-> Text(b)]

\* line 458: input.value = "" on every input element of the document
BlankInputs(dom) == [b \in DOMAIN dom |-> String(<<>>)]

\* a commit that leaves the value of an existing input element as it is
CommitRenderKeepsValue(dom) == dom

\* The commit of render() after a setState: an input element whose value
\* differs from the value prop render() gives it is assigned that prop.
CommitRender(dom) ==
    [b \in DOMAIN dom |->
        IF dom[b] # renderedRadioValue[b] THEN renderedRadioValue[b] ELSE dom[b]]

Init ==
    /\ args = NoArgs
    /\ result = NoResult
    /\ state = startState
    /\ error = startError
    /\ radioChecked = "none"
    /\ radioValue = renderedRadioValue

InitEngine ==
    /\ args \in GeometryInputs \cup FactorInputs
    /\ result = NoResult
    /\ state = startState
    /\ error = startError
    /\ radioChecked = "none"
    /\ radioValue = renderedRadioValue

\* a caller runs new TerzaghiBearingCapacity(...args)
Construct ==
    /\ result.status = "none"
    /\ result' = New(args)
    /\ UNCHANGED <<args, state, error, radioChecked, radioValue>>

NextEngine == Construct

SpecEngine == InitEngine /\ [][NextEngine]_vars

(***************************************************************************)
(* class BearingCapacityApp                                                *)
(***************************************************************************)
\* what the user can type into each text box
CohesionTexts == {<<"0">>, <<"-", "1">>}
PhiTexts == {<<"3", "0">>, <<"0", "0">>, <<"4", "2">>}
UnitWeightTexts == {<<"1", "2", "0", ".", "5">>}
DepthTexts == {<<"9">>}
WidthTexts == {<<"4">>, <<>>}
GroundwaterDepthTexts == {<<"1", "0">>, <<"0">>}
FSTexts == {<<"3">>, <<"0">>, <<"x">>}
Keys == {"Enter", "1"}

\* string.search(/^[0-9]+[.]?[0-9]*$|^[.][0-9]+$/) > -1
MatchesFloat(s) ==
    \/ /\ Len(s) >= 1
       /\ IsDigit(s[1])
       /\ \A i \in 1..Len(s) : IsDigit(s[i]) \/ s[i] = "."
       /\ Cardinality({i \in 1..Len(s) : s[i] = "."}) <= 1
    \/ /\ Len(s) >= 2
       /\ s[1] = "."
       /\ \A i \in 2..Len(s) : IsDigit(s[i])

\* string.search(/^[0-9]+$/) > -1
MatchesInt(s) == Len(s) >= 1 /\ AllDigits(s)

\* isValidFloat(string, parameter): the value returned
isValidFloat(string) == MatchesFloat(string.s)

\* isValidInt(string, parameter): the value returned
isValidInt(string) == MatchesInt(string.s) /\ Less(string, Whole(42))

\* the validator's write of this.state.error[parameter]
SetError(e, parameter, valid) == [e EXCEPT ![parameter] = Bool(~valid)]

\* The onChange handlers: setState of the field with event.target.value,
\* then, in the callback, the validator on the value now in this.state.
handleCohesion ==
    \E text \in CohesionTexts :
        /\ state' = [state EXCEPT !.cohesion = String(text)]
        /\ error' = SetError(error, "cohesion", isValidFloat(String(text)))
        /\ radioValue' = CommitRender(radioValue)
        /\ UNCHANGED <<args, result, radioChecked>>

handlePhi ==
    \E text \in PhiTexts :
        /\ state' = [state EXCEPT !.phi = String(text)]
        /\ error' = SetError(error, "phi", isValidInt(String(text)))
        /\ radioValue' = CommitRender(radioValue)
        /\ UNCHANGED <<args, result, radioChecked>>

handleUnitWeight ==
    \E text \in UnitWeightTexts :
        /\ state' = [state EXCEPT !.unitWeight = String(text)]
        /\ error' = SetError(error, "unitWeight", isValidFloat(String(text)))
        /\ radioValue' = CommitRender(radioValue)
        /\ UNCHANGED <<args, result, radioChecked>>

handleDepth ==
    \E text \in DepthTexts :
        /\ state' = [state EXCEPT !.depth = String(text)]
        /\ error' = SetError(error, "depth", isValidFloat(String(text)))
        /\ radioValue' = CommitRender(radioValue)
        /\ UNCHANGED <<args, result, radioChecked>>

handleWidth ==
    \E text \in WidthTexts :
        /\ state' = [state EXCEPT !.width = String(text)]
        /\ error' = SetError(error, "width", isValidFloat(String(text)))
        /\ radioValue' = CommitRender(radioValue)
        /\ UNCHANGED <<args, result, radioChecked>>

handleGroundwaterDepth ==
    \E text \in GroundwaterDepthTexts :
        /\ state' = [state EXCEPT !.groundwaterDepth = String(text)]
        /\ error' = SetError(error, "groundwaterDepth", isValidFloat(String(text)))
        /\ radioValue' = CommitRender(radioValue)
        /\ UNCHANGED <<args, result, radioChecked>>

handleFS ==
    \E text \in FSTexts :
        /\ state' = [state EXCEPT !.FS = String(text)]
        /\ error' = SetError(error, "FS", isValidFloat(String(text)))
        /\ radioValue' = CommitRender(radioValue)
        /\ UNCHANGED <<args, result, radioChecked>>

\* the user checks a radio button (no handler of the component runs)
ClickRadio ==
    \E i \in 1..Len(RadioButtons) :
        /\ radioChecked' = RadioButtons[i]
        /\ UNCHANGED <<args, result, state, error, radioValue>>

getRadioValue ==
    IF radioChecked = "none" THEN Text("continuous") ELSE radioValue[radioChecked]

\* allFieldsAreDefined(): the value returned
allFieldsAreDefined ==
    ~(\/ ~Truthy(state.cohesion)
      \/ ~Truthy(state.phi)
      \/ ~Truthy(state.unitWeight)
      \/ ~Truthy(state.depth)
      \/ ~Truthy(state.width)
      \/ ~Truthy(state.groundwaterDepth)
      \/ ~Truthy(state.FS))

\* the validators of lines 393-399, in their order
Validators ==
    << <<"cohesion", "cohesion">>, <<"phi", "phi">>,
       <<"unitWeight", "unitWeight">>, <<"depth", "depth">>,
       <<"width", "width">>, <<"groundwaterDepth", "groundwaterDepth">>,
       <<"FS", "FS">> >>

FieldIsValid(i) ==
    IF Validators[i][1] = "phi"
    THEN isValidInt(state[Validators[i][1]])
    ELSE isValidFloat(state[Validators[i][1]])

RECURSIVE Validate(_, _)
\* the && chain from validator i on: each validator that runs writes its
\* error flag, and the first that fails ends the chain
Validate(e, i) ==
    IF i > Len(Validators)
    THEN [ok |-> TRUE, error |-> e]
    ELSE IF FieldIsValid(i)
         THEN Validate(SetError(e, Validators[i][2], TRUE), i + 1)
         ELSE [ok |-> FALSE, error |-> SetError(e, Validators[i][2], FALSE)]

\* the condition of lines 392-399 with the writes to this.state.error
Checked ==
    IF allFieldsAreDefined
    THEN Validate([error EXCEPT !.undefinedInput = Bool(FALSE)], 1)
    ELSE [ok |-> FALSE, error |-> [error EXCEPT !.undefinedInput = Bool(TRUE)]]

\* line 401
Evaluated(shape) ==
    TerzaghiBearingCapacity(state.cohesion, state.phi, state.depth,
                            state.unitWeight, state.width, shape,
                            state.groundwaterDepth, state.FS)

handleCalculateBearingCapacity ==
    \E shape \in {getRadioValue} : \E c \in {Checked} :
        /\ IF c.ok
           THEN \E r \in {Evaluated(shape)} :
                    /\ error' = [c.error EXCEPT !.cannotEvaluate = Bool(FALSE)]
                    /\ IF r.status = "constructed"
                       THEN state' = [state EXCEPT
                                !.shape = shape,
                                !.renderedFS = state.FS,
                                !.bearingCapacity = r.obj.bearingCapacity,
                                !.allowableCapacity = r.obj.allowableCapacity,
                                !.calculation = r.obj.calculation,
                                !.equation = r.obj.equation,
                                !.calculated = Bool(TRUE)]
                       ELSE \* the constructor threw: no setState follows
                            state' = state
           ELSE /\ error' = [c.error EXCEPT !.cannotEvaluate = Bool(TRUE)]
                /\ state' = [state EXCEPT !.calculated = Bool(FALSE)]
        /\ radioValue' = CommitRender(radioValue)
        /\ UNCHANGED <<args, result, radioChecked>>

\* Line 458 blanks the value of every input element, the radio buttons
\* included; the render that follows the setState of line 459 commits the
\* value props of lines 499-503 again. setState merges the object returned
\* into this.state: the keys it names are replaced, a key it does not name
\* (FS) keeps its value.
handleReset ==
    /\ radioValue' = CommitRender(BlankInputs(radioValue))
    /\ state' = [startState EXCEPT !.FS = state.FS]
    /\ error' = startError
    /\ UNCHANGED <<args, result, radioChecked>>

handleEnterKey ==
    \E key \in Keys :
        IF key = "Enter"
        THEN handleCalculateBearingCapacity
        ELSE UNCHANGED vars

Next ==
    \/ handleCohesion
    \/ handlePhi
    \/ handleUnitWeight
    \/ handleDepth
    \/ handleWidth
    \/ handleGroundwaterDepth
    \/ handleFS
    \/ ClickRadio
    \/ handleCalculateBearingCapacity
    \/ handleReset
    \/ handleEnterKey

Spec == Init /\ [][Next]_vars

(***************************************************************************)
(* The engine's claims, checked under SpecEngine                           *)
(***************************************************************************)
Constructed == result.status = "constructed"

Called == result.status # "none"

IsNumber(v) == v.t = "number"

IsTableAngle(v) == v.t = "number" /\ v.d = 1 /\ v.n >= 0 /\ v.n <= 41

\* 62.4, written here independently of the model's global
Water == Num(624, 10)

\* C1: a groundwater depth the caller supplies is used as given, the
\* default 2*(D+B) replacing it only when it is absent; with
\* groundwaterDepth = 0 and D > 0 the result has
\* effectiveUnitWeight = unitWeight - 62.4 and
\* effectiveStress = unitWeight*D - D*62.4.
C1_SuppliedGroundwaterUsedAsGiven ==
    (Constructed /\ IsNumber(args.groundwaterDepth)) =>
        /\ result.obj.groundwaterDepth = args.groundwaterDepth
        /\ (args.groundwaterDepth = Whole(0) /\ args.depth.n > 0) =>
              /\ result.obj.effectiveUnitWeight
                    = NumAdd(args.unitWeight, NumNeg(Water))
              /\ result.obj.effectiveStress
                    = NumAdd(NumMul(args.unitWeight, args.depth),
                             NumNeg(NumMul(args.depth, Water)))

\* C2: with FS <= 0 the construction fails with an error and yields no
\* object (so no allowableCapacity that is Infinity, NaN or negative).
C2_NonPositiveFSFails ==
    (Called /\ IsNumber(args.FS) /\ args.FS.n <= 0) => ~Constructed

\* C3: for every integer phi in 0..41 the factors are the table's triple
\* (phi=0 -> (5.7,1,0), phi=30 -> (37.2,22.5,20.1),
\* phi=41 -> (106.8,93.8,148.5)); for every other phi the construction
\* fails with an error and produces no object.
C3_LookupExactlyOnTable ==
    Called =>
        IF IsTableAngle(args.phi)
        THEN /\ Constructed
             /\ <<result.obj.Nc, result.obj.Nq, result.obj.Ng>>
                   = [i \in 1..3 |-> Num(NTerzaghiTenths[args.phi.n + 1][i], 10)]
             /\ args.phi = Whole(0) =>
                   <<result.obj.Nc, result.obj.Nq, result.obj.Ng>>
                       = <<Num(57, 10), Whole(1), Whole(0)>>
             /\ args.phi = Whole(30) =>
                   <<result.obj.Nc, result.obj.Nq, result.obj.Ng>>
                       = <<Num(372, 10), Num(225, 10), Num(201, 10)>>
             /\ args.phi = Whole(41) =>
                   <<result.obj.Nc, result.obj.Nq, result.obj.Ng>>
                       = <<Num(1068, 10), Num(938, 10), Num(1485, 10)>>
        ELSE result.status = "TypeError" /\ result.obj = NoObject

C3_Witness == result.status = "TypeError" /\ args.phi = Whole(42)

\* C4: without a groundwaterDepth the engine uses Dw = 2*(depth + width),
\* which is outside the influence zone: effectiveUnitWeight = unitWeight
\* and effectiveStress = unitWeight*depth; for D = 3.5, B = 4 the stored
\* groundwaterDepth is 15.
C4_DefaultGroundwater ==
    (Constructed /\ args.groundwaterDepth = Undefined) =>
        /\ result.obj.groundwaterDepth
              = NumMul(Whole(2), NumAdd(args.depth, args.width))
        /\ result.obj.effectiveUnitWeight = args.unitWeight
        /\ result.obj.effectiveStress = NumMul(args.unitWeight, args.depth)
        /\ (args.depth = Num(7, 2) /\ args.width = Whole(4)) =>
              result.obj.groundwaterDepth = Whole(15)

C4_Witness ==
    /\ Constructed
    /\ args.groundwaterDepth = Undefined
    /\ args.depth = Num(7, 2)
    /\ args.width = Whole(4)
    /\ result.obj.groundwaterDepth = Whole(15)

\* the three-case function of C5
ThreeCaseUnitWeight(g, D, B, Dw) ==
    IF ~NumLess(D, Dw)
    THEN NumAdd(g, NumNeg(Water))
    ELSE IF NumLess(Dw, NumAdd(D, B))
         THEN NumAdd(g, NumNeg(NumMul(Water,
                  NumAdd(Whole(1),
                         NumNeg(NumDiv(NumAdd(Dw, NumNeg(D)), B))))))
         ELSE g

\* C5: for D >= 0, B > 0 and a supplied Dw >= 0, effectiveUnitWeight is
\* g - 62.4 when Dw <= D, g - 62.4*(1 - (Dw - D)/B) when D < Dw < D+B,
\* and g when Dw >= D+B.
C5_EffectiveUnitWeightThreeCases ==
    (Constructed /\ IsNumber(args.groundwaterDepth)) =>
        result.obj.effectiveUnitWeight
            = ThreeCaseUnitWeight(args.unitWeight, args.depth, args.width,
                                  args.groundwaterDepth)

\* C6: for D >= 0 and a supplied Dw >= 0, effectiveStress is g*D when
\* Dw >= D and g*D - (D - Dw)*62.4 when Dw < D.
C6_EffectiveStressTwoCases ==
    (Constructed /\ IsNumber(args.groundwaterDepth)) =>
        result.obj.effectiveStress
            = IF ~NumLess(args.groundwaterDepth, args.depth)
              THEN NumMul(args.unitWeight, args.depth)
              ELSE NumAdd(NumMul(args.unitWeight, args.depth),
                          NumNeg(NumMul(NumAdd(args.depth,
                                               NumNeg(args.groundwaterDepth)),
                                        Water)))

\* the coefficients of C8, by shape
ClaimedCoefficients(shape) ==
    IF shape = Text("square") THEN <<Num(13, 10), Whole(1), Num(4, 10)>>
    ELSE IF shape = Text("circular") THEN <<Num(13, 10), Whole(1), Num(3, 10)>>
    ELSE <<Whole(1), Whole(1), Num(5, 10)>>

\* C7: for every valid input (phi in the table, FS > 0)
\* bearingCapacity = round(c1*cohesion*Nc + c2*effectiveStress*Nq
\*                         + c3*effectiveUnitWeight*width*Ng)
\* and allowableCapacity = round(bearingCapacity / FS), the quotient taken
\* of the rounded bearingCapacity; cohesion=0, phi=30, D=3, unit weight=120,
\* B=4, continuous, Dw omitted, FS=3 gives 12924 and 4308.
C7_CapacityFormula ==
    (Constructed /\ args.FS.n > 0) =>
        LET o == result.obj
            c == ClaimedCoefficients(args.shape)
            sum == NumAdd(NumAdd(NumMul(NumMul(c[1], args.cohesion), o.Nc),
                                 NumMul(NumMul(c[2], o.effectiveStress), o.Nq)),
                          NumMul(NumMul(NumMul(c[3], o.effectiveUnitWeight),
                                        args.width), o.Ng))
        IN  /\ o.bearingCapacity = Whole((2 * sum.n + sum.d) \div (2 * sum.d))
            /\ o.bearingCapacity.d = 1
            /\ LET q == NumDiv(o.bearingCapacity, args.FS)
               IN  o.allowableCapacity = Whole((2 * q.n + q.d) \div (2 * q.d))
            /\ (args = [cohesion |-> Whole(0), phi |-> Whole(30),
                        depth |-> Whole(3), unitWeight |-> Whole(120),
                        width |-> Whole(4), shape |-> Text("continuous"),
                        groundwaterDepth |-> Undefined, FS |-> Whole(3)]) =>
                  /\ o.bearingCapacity = Whole(12924)
                  /\ o.allowableCapacity = Whole(4308)

C7_Witness ==
    /\ Constructed
    /\ args = [cohesion |-> Whole(0), phi |-> Whole(30), depth |-> Whole(3),
               unitWeight |-> Whole(120), width |-> Whole(4),
               shape |-> Text("continuous"), groundwaterDepth |-> Undefined,
               FS |-> Whole(3)]
    /\ result.obj.bearingCapacity = Whole(12924)
    /\ result.obj.allowableCapacity = Whole(4308)

\* C8: (c1, c2, c3) is (1.3, 1, 0.4) for square, (1.3, 1, 0.3) for circular
\* and (1, 1, 0.5) for continuous and for every other shape; an
\* unrecognized shape raises no error and gives the result of continuous on
\* the same inputs; c2 is the same for all shapes.
C8_ShapeCoefficients ==
    Called =>
        LET asContinuous == New([args EXCEPT !.shape = Text("continuous")])
            known == {Text("square"), Text("circular"), Text("continuous")}
        IN  /\ Constructed =>
                  /\ <<result.obj.coef1, result.obj.coef2, result.obj.coef3>>
                        = ClaimedCoefficients(args.shape)
                  /\ result.obj.coef2 = Whole(1)
            /\ args.shape \notin known =>
                  /\ result.status = asContinuous.status
                  /\ Constructed =>
                        result.obj = [asContinuous.obj EXCEPT !.shape = args.shape]

C8_Witness ==
    /\ Constructed
    /\ args.shape = Text("triangle")
    /\ result.obj.coef3 = Num(5, 10)

(***************************************************************************)
(* The component's claims, checked under Spec                              *)
(***************************************************************************)
\* a field is defined and passes its validator
FieldPasses(i) ==
    /\ state[Validators[i][1]].t = "string"
    /\ state[Validators[i][1]].s # <<>>
    /\ FieldIsValid(i)

AllSevenPass == \A i \in 1..Len(Validators) : FieldPasses(i)

ResultFields == {"bearingCapacity", "allowableCapacity", "calculation", "equation"}

\* C9: handleCalculateBearingCapacity, from any state: if all seven fields
\* are defined and pass their validators, it stores the engine's
\* bearingCapacity, allowableCapacity, calculation and equation and sets
\* calculated = true with cannotEvaluate = false; in every other case it
\* stores no result and sets cannotEvaluate = true and calculated = false.
C9_CalculateEvaluatesIffAllFieldsPass ==
    [][handleCalculateBearingCapacity =>
        IF AllSevenPass
        THEN /\ state'.calculated = Bool(TRUE)
             /\ error'.cannotEvaluate = Bool(FALSE)
             /\ \A f \in ResultFields :
                    state'[f] = Evaluated(getRadioValue).obj[f]
        ELSE /\ state'.calculated = Bool(FALSE)
             /\ error'.cannotEvaluate = Bool(TRUE)
             /\ \A f \in ResultFields : state'[f] = state[f]]_vars

\* C10: after handleReset every field of the component state, the stored
\* factor of safety and the error flags included, has the value it had
\* when the app started.
C10_ResetRestoresStartState ==
    [][handleReset => (state' = startState /\ error' = startError)]_vars

\* the engine on the numeric values of the texts in the fields
EvaluatedOnNumbers(shape) ==
    TerzaghiBearingCapacity(ToNumber(state.cohesion), ToNumber(state.phi),
                            ToNumber(state.depth), ToNumber(state.unitWeight),
                            ToNumber(state.width), shape,
                            ToNumber(state.groundwaterDepth),
                            ToNumber(state.FS))

\* C13: for all field texts that pass validation, the bearingCapacity and
\* the allowableCapacity that handleCalculateBearingCapacity stores are
\* those of the engine on the numeric values of the texts: the groundwater
\* case is selected by the numeric order of Dw against D and against the
\* numeric sum D+B, not by the order of the texts as strings.
C13_StoredResultIsEngineOnNumbers ==
    [][(handleCalculateBearingCapacity /\ AllSevenPass) =>
        \E r \in {EvaluatedOnNumbers(getRadioValue)} :
            /\ r.status = "constructed"
            /\ state'.bearingCapacity = r.obj.bearingCapacity
            /\ state'.allowableCapacity = r.obj.allowableCapacity]_vars

\* C14: every phi text that isValidInt accepts is a key of the NTerzaghi
\* table (texts with leading zeros such as '00' included), so a calculation
\* whose fields all pass validation never fails in the factor lookup.
C14_ValidPhiTextIsTableKey ==
    /\ (state.phi.t = "string" /\ isValidInt(state.phi)) => HasKey(state.phi)
    /\ AllSevenPass => Evaluated(getRadioValue).status = "constructed"

\* the value render() gives the checked radio button, "continuous" when no
\* button is checked
CheckedButtonValue ==
    IF radioChecked = "none" THEN Text("continuous") ELSE Text(radioChecked)

Separators == {"(", " x ", ") + (", ") = "}

RECURSIVE SplitTerms(_, _)
\* the texts between the separators of s, cur being the text read so far
SplitTerms(s, cur) ==
    IF s = <<>> THEN <<cur>>
    ELSE IF Head(s) \in Separators
         THEN <<cur>> \o SplitTerms(Tail(s), <<>>)
         ELSE SplitTerms(Tail(s), Append(cur, Head(s)))

\* the numbers a reader finds in the calculation string, in their order
PrintedTerms(calculation) ==
    LET texts == SplitTerms(Tail(calculation.s), <<>>)
    IN  [i \in 1..Len(texts) |-> StringToNumber(texts[i])]

\* (c1 x cohesion x Nc) + (c2 x stress x Nq) + (c3 x unit weight x width x Ng)
\* evaluated on the printed terms t and rounded
DisplayedValue(t) ==
    MathRound(NumAdd(NumAdd(NumMul(NumMul(t[1], t[2]), t[3]),
                            NumMul(NumMul(t[4], t[5]), t[6])),
                     NumMul(NumMul(NumMul(t[7], t[8]), t[9]), t[10])))

IsWhole(v) == v.t = "number" /\ v.d = 1

\* C12 as stated: for every valid input, evaluating the displayed
\* expression with the terms as printed and rounding gives the
\* bearingCapacity printed after '='.
C12_DisplayedExpressionGivesPrintedCapacity ==
    Constructed =>
        \E t \in {PrintedTerms(result.obj.calculation)} :
            /\ Len(t) = 11
            /\ t[11] = result.obj.bearingCapacity
            /\ DisplayedValue(t) = t[11]

\* C12 amended: the calculation string prints c1, cohesion, Nc, c2,
\* Math.round(effectiveStress), Nq, c3, Math.round(effectiveUnitWeight),
\* width, Ng and, after '=', the bearingCapacity computed from the unrounded
\* stress and unit weight; evaluating the displayed expression and rounding
\* gives the printed bearingCapacity whenever the effective stress and the
\* effective unit weight are whole numbers.
C12_PrintedTermsRoundStressAndUnitWeight ==
    Constructed =>
        \E t \in {PrintedTerms(result.obj.calculation)} :
            /\ t = << result.obj.coef1, ToNumber(result.obj.cohesion),
                      result.obj.Nc, result.obj.coef2,
                      MathRound(result.obj.effectiveStress), result.obj.Nq,
                      result.obj.coef3,
                      MathRound(result.obj.effectiveUnitWeight),
                      ToNumber(result.obj.width), result.obj.Ng,
                      result.obj.bearingCapacity >>
            /\ (IsWhole(result.obj.effectiveStress)
                    /\ IsWhole(result.obj.effectiveUnitWeight))
                   => DisplayedValue(t) = result.obj.bearingCapacity

\* a result whose effective stress is not whole and whose displayed
\* expression does not evaluate to the printed capacity
C12_Witness ==
    /\ Constructed
    /\ ~IsWhole(result.obj.effectiveStress)
    /\ PrintedTerms(result.obj.calculation)[5]
          = MathRound(result.obj.effectiveStress)
    /\ DisplayedValue(PrintedTerms(result.obj.calculation))
          # result.obj.bearingCapacity

====
